---- MODULE Spec2Model ----
(***************************************************************************)
(* Model of the preset store of pcdsdevices/interface.py: class Presets,   *)
(* class PresetPosition and setup_preset_paths.                            *)
(*                                                                         *)
(* Every store (a Presets object) lives in its own process; all stores     *)
(* manage the presets of the same device name, so they share one storage   *)
(* file per preset type.  A further process, Ext, stands for a user who    *)
(* holds the advisory lock of a file (an editor, or any other program      *)
(* calling flock).                                                         *)
(*                                                                         *)
(* Values are fixed-point numbers: the integer v stands for v / Unit.      *)
(***************************************************************************)
EXTENDS Integers, Sequences, FiniteSets, TLC

VARIABLES
    exists,     \* exists[c]: the storage file of preset type c exists
    content,    \* content[c]: what the storage file of preset type c holds
    flock,      \* flock[c]: the processes holding the exclusive flock of the file
    now,        \* wall clock, in seconds
    pc,         \* pc[s]: where store s is inside its current call
    fd,         \* fd[s]: Presets._fd
    cache,      \* cache[s]: Presets._cache
    methods,    \* methods[s]: Presets._methods, a list of (object, method name)
    attrs,      \* attrs[s]: the dynamic attributes set on the store and its device
    positions,  \* positions[s]: Presets.positions, preset name -> preset type
    paths,      \* paths[s]: the keys of Presets._paths, in order
    frame,      \* frame[s]: arguments and locals of the call in progress
    result,     \* result[s]: how the last call of store s ended
    logged,     \* logged[s]: _log_flock_error ran during the current call
    calls,      \* number of calls made so far (bounded by MaxCalls)
    blocked,    \* blocked[s]: the preset type whose lock another process has
                \*   held ever since the last update call of s began, or ""
    cache0,     \* cache0[s]: cache[s] when that update call began
    position,   \* what the wm() of the device returns: where the mover is
    answer      \* answer[s]: what the last call of state() returned

vars == <<exists, content, flock, now, pc, fd, cache, methods, attrs,
          positions, paths, frame, result, logged, calls, blocked, cache0,
          position, answer>>

(***************************************************************************)
(* Bounds.                                                                 *)
(***************************************************************************)
MaxCalls == 2
MaxTime == 2

Stores == {"p1", "p2"}
Ext == "ext"
CatSeq == <<"c1", "c2">>
Cats == {CatSeq[i] : i \in 1..Len(CatSeq)}

(***************************************************************************)
(* Python values.  A number argument is None, a real or something that is  *)
(* not a real; a name argument is a str or something else.                 *)
(***************************************************************************)
Unit == 100000
PyNone == [t |-> "none", v |-> 0]
Real(x) == [t |-> "real", v |-> x]
NotReal == [t |-> "str", v |-> 0]
NoComment == [t |-> "none", s |-> ""]
Str(x) == [t |-> "str", s |-> x]
NotStr == [t |-> "int", s |-> "123"]

\* preset names in sorted order, the order yaml.dump writes a mapping in
NameSeq == <<"", "a", "b">>
GoodNames == {Str("a"), Str("b")}
ArgNames == GoodNames \cup {Str(""), NotStr}
GoodValues == {Real(Unit), Real(2 * Unit + 3)}
ArgValues == GoodValues \cup {NotReal}
ArgComments == {NoComment, Str("x")}

EmptyDoc == [n \in {} |-> 0]
EmptyCache == [c \in {} |-> 0]
EmptyFile == [kind |-> "empty", data |-> EmptyDoc]
Yaml(d) == [kind |-> "yaml", data |-> d]
Garbage == [kind |-> "garbage", data |-> EmptyDoc]

NoFd == [st |-> "none", cat |-> ""]
OpenFd(c) == [st |-> "open", cat |-> c]

NoFrame == [ctx |-> "", cat |-> "", name |-> "", value |-> PyNone,
            comment |-> NoComment, active |-> TRUE, data |-> EmptyDoc,
            owner |-> FALSE, todo |-> << >>, setup |-> FALSE]

(***************************************************************************)
(* Pure helpers.                                                           *)
(***************************************************************************)
RECURSIVE Concat(_)
Concat(ss) == IF ss = << >> THEN << >> ELSE Head(ss) \o Concat(Tail(ss))

SeqSet(q) == {q[i] : i \in 1..Len(q)}

\* time.strftime('%d %b %Y %H:%M:%S'): the clock, to the second
TicksPerSecond == 2
Strftime(t) == t \div TicksPerSecond

\* '{:10.4f}'.format(value): the value rounded to four decimals, in 1/10000
\* (the values of the model are never half-way between two such numbers)
Fmt4(v) == IF v >= 0 THEN (v + 5) \div 10 ELSE 0 - ((5 - v) \div 10)

\* history[ts] = text on a dict: an existing key keeps its place
HistPut(h, ts, text) ==
    IF \E i \in 1..Len(h) : h[i].ts = ts
    THEN [i \in 1..Len(h) |->
             IF h[i].ts = ts THEN [ts |-> ts, text |-> text] ELSE h[i]]
    ELSE Append(h, [ts |-> ts, text |-> text])

\* a variant in which an update with active = true leaves the flag of an
\* existing record as it is
UpdateData_KeepFlag(data, name, value, comment, active, ts) ==
    LET hasRec == name \in DOMAIN data
        fromData == value.t = "none" /\ comment.t # "none"
        v1 == IF fromData /\ hasRec THEN Real(data[name].value) ELSE value
        c1 == IF comment.t # "none" /\ comment.s # ""
              THEN " " \o comment.s ELSE ""
        hist0 == IF hasRec THEN data[name].history ELSE << >>
        act1 == IF hasRec /\ active THEN data[name].active ELSE active
        rec1 == [value |-> v1.v,
                 history |-> HistPut(hist0, ts,
                                     [num |-> Fmt4(v1.v), comment |-> c1]),
                 active |-> act1]
        rec2 == IF v1.t # "none" THEN rec1
                ELSE [data[name] EXCEPT !.active = act1]
    IN  IF ~hasRec /\ v1.t = "none"
        THEN [err |-> "KeyError", data |-> data]
        ELSE [err |-> "", data |-> (name :> rec2) @@ data]

\* a variant in which an update without a value starts the history afresh
UpdateData_Purge(data, name, value, comment, active, ts) ==
    LET hasRec == name \in DOMAIN data
        fromData == value.t = "none" /\ comment.t # "none"
        v1 == IF fromData /\ hasRec THEN Real(data[name].value) ELSE value
        c1 == IF comment.t # "none" /\ comment.s # ""
              THEN " " \o comment.s ELSE ""
        hist0 == IF hasRec THEN data[name].history ELSE << >>
        rec1 == [value |-> v1.v,
                 history |-> HistPut(hist0, ts,
                                     [num |-> Fmt4(v1.v), comment |-> c1]),
                 active |-> active]
        rec2 == IF v1.t # "none" THEN rec1
                ELSE [data[name] EXCEPT !.active = active,
                                        !.history = << >>]
    IN  IF ~hasRec /\ v1.t = "none"
        THEN [err |-> "KeyError", data |-> data]
        ELSE [err |-> "", data |-> (name :> rec2) @@ data]

\* the body of _update between _read and _write
UpdateData(data, name, value, comment, active, ts) ==
    LET hasRec == name \in DOMAIN data
        fromData == value.t = "none" /\ comment.t # "none"
        v1 == IF fromData /\ hasRec THEN Real(data[name].value) ELSE value
        c1 == IF comment.t # "none" /\ comment.s # ""
              THEN " " \o comment.s ELSE ""
        hist0 == IF hasRec THEN data[name].history ELSE << >>
        rec1 == [value |-> v1.v,
                 history |-> HistPut(hist0, ts,
                                     [num |-> Fmt4(v1.v), comment |-> c1]),
                 active |-> active]
        rec2 == IF v1.t # "none" THEN rec1
                ELSE [data[name] EXCEPT !.active = active]
    IN  IF ~hasRec /\ v1.t = "none"
        THEN [err |-> "KeyError", data |-> data]
        ELSE [err |-> "", data |-> (name :> rec2) @@ data]

\* a variant that takes every file for an empty one
Read_Empty(f, file) == [err |-> "", data |-> EmptyDoc]

\* the body of _read on the handle f of a file
Read(f, file) ==
    IF f.st # "open" THEN [err |-> "ValueError", data |-> EmptyDoc]
    ELSE IF file.kind = "garbage" THEN [err |-> "YAMLError", data |-> EmptyDoc]
    ELSE [err |-> "", data |-> IF file.kind = "empty" THEN EmptyDoc
                               ELSE file.data]

\* a variant that forgets the check of value
TypeCheck_NameOnly(name, value) == name.t = "str"

\* the isinstance checks of _update pass
TypeCheck(name, value) ==
    /\ name.t = "str"
    /\ value.t = "none" \/ value.t = "real"

\* a variant without the second flock: the scope is entered in any case
LockNB_Unchecked(holders, p) == TRUE

\* flock(fd, LOCK_EX | LOCK_NB) succeeds for p
LockNB(holders, p) == holders \subseteq {p}

\* variants: every scope unlocks and forgets the handle when it ends, nested
\* or not; the lock survives an error raised in the body
RlockExitLock_NotReentrant(holders, p, owner, raised) == holders \ {p}

RlockExitFd_NotReentrant(f, owner, raised) ==
    IF raised THEN [f EXCEPT !.st = "closed"] ELSE NoFd

RlockExitLock_KeptOnRaise(holders, p, owner, raised) ==
    IF owner /\ ~raised THEN holders \ {p} ELSE holders

\* leaving a scope of _file_open_rlock: the lock and the handle afterwards.
\* owner: this scope opened the file; raised: the body raised
RlockExitLock(holders, p, owner, raised) ==
    IF owner THEN holders \ {p} ELSE holders

RlockExitFd(f, owner, raised) ==
    IF ~owner THEN f
    ELSE IF raised THEN [f EXCEPT !.st = "closed"]
    ELSE NoFd

\* _create_methods
AddMethods(p) ==
    Concat([i \in 1..Len(p) |-> << <<"presets", "add_", p[i]>>,
                                   <<"presets", "add_here_", p[i]>> >>])

\* a variant that does not look at the active flag
ActiveNames_All(d) == SelectSeq(NameSeq, LAMBDA n : n \in DOMAIN d)

ActiveNames(d) == SelectSeq(NameSeq, LAMBDA n : n \in DOMAIN d /\ d[n].active)

PresetMethods(d) ==
    Concat([i \in 1..Len(ActiveNames(d)) |->
               << <<"device", "mv_", ActiveNames(d)[i]>>,
                  <<"device", "umv_", ActiveNames(d)[i]>>,
                  <<"device", "wm_", ActiveNames(d)[i]>> >>])

CachedCats(p, ch) == SelectSeq(p, LAMBDA c : c \in DOMAIN ch)

CreateMethods(p, ch) ==
    AddMethods(p) \o
    Concat([i \in 1..Len(CachedCats(p, ch)) |->
               PresetMethods(ch[CachedCats(p, ch)[i]])])

CreatePositions(p, ch) ==
    LET cc == CachedCats(p, ch)
        has(i, n) == n \in SeqSet(ActiveNames(ch[cc[i]]))
        ns == {n \in SeqSet(NameSeq) : \E i \in 1..Len(cc) : has(i, n)}
    IN  [n \in ns |->
            cc[CHOOSE i \in 1..Len(cc) :
                  has(i, n) /\ \A j \in 1..Len(cc) : has(j, n) => j <= i]]

(***************************************************************************)
(* Initial state: every store has been constructed (Presets.__init__ ends  *)
(* with sync) while no storage file existed; p is the list of the preset   *)
(* types given to setup_preset_paths.                                      *)
(***************************************************************************)
InitPaths(p) ==
    /\ exists = [c \in Cats |-> FALSE]
    /\ content = [c \in Cats |-> EmptyFile]
    /\ flock = [c \in Cats |-> {}]
    /\ now = 0
    /\ pc = [s \in Stores |-> "idle"]
    /\ fd = [s \in Stores |-> NoFd]
    /\ cache = [s \in Stores |-> EmptyCache]
    /\ methods = [s \in Stores |-> CreateMethods(p, EmptyCache)]
    /\ attrs = [s \in Stores |-> SeqSet(CreateMethods(p, EmptyCache))]
    /\ positions = [s \in Stores |-> CreatePositions(p, EmptyCache)]
    /\ paths = [s \in Stores |-> p]
    /\ frame = [s \in Stores |-> NoFrame]
    /\ result = [s \in Stores |-> "none"]
    /\ logged = [s \in Stores |-> FALSE]
    /\ calls = 0
    /\ blocked = [s \in Stores |-> ""]
    /\ cache0 = [s \in Stores |-> EmptyCache]
    /\ position = 0
    /\ answer = [s \in Stores |-> ""]

\* the file being locked or read by the current step of s
LockCat(s) == IF frame[s].ctx = "update" THEN frame[s].cat
              ELSE Head(frame[s].todo)

\* some process gives up the lock of c: no call is blocked on c any more
Release(c) ==
    /\ blocked' = [t \in Stores |-> IF blocked[t] = c THEN "" ELSE blocked[t]]
    /\ cache0' = [t \in Stores |-> IF blocked[t] = c THEN EmptyCache
                                   ELSE cache0[t]]

\* an exception leaves the call of s
Raise(s, err) ==
    /\ pc' = [pc EXCEPT ![s] = "idle"]
    /\ result' = [result EXCEPT ![s] = err]
    /\ frame' = [frame EXCEPT ![s] = NoFrame]

(***************************************************************************)
(* Presets._update, up to the with statement.                              *)
(***************************************************************************)
BeginUpdate(s, c, name, value, comment, active) ==
    /\ pc[s] = "idle"
    /\ calls < MaxCalls
    /\ c \in SeqSet(paths[s])
    /\ calls' = calls + 1
    /\ logged' = [logged EXCEPT ![s] = FALSE]
    /\ IF ~TypeCheck(name, value)
       THEN /\ Raise(s, "TypeError")
            /\ blocked' = [blocked EXCEPT ![s] = ""]
            /\ cache0' = [cache0 EXCEPT ![s] = EmptyCache]
            /\ UNCHANGED <<exists, content>>
       ELSE /\ exists' = [exists EXCEPT ![c] = TRUE]
            /\ content' = IF exists[c] THEN content
                          ELSE [content EXCEPT ![c] = EmptyFile]
            /\ frame' = [frame EXCEPT ![s] =
                    [NoFrame EXCEPT !.ctx = "update", !.cat = c,
                                    !.name = name.s, !.value = value,
                                    !.comment = comment, !.active = active,
                                    !.owner = (fd[s] = NoFd)]]
            /\ pc' = [pc EXCEPT ![s] = IF fd[s] = NoFd THEN "flock"
                                       ELSE "body"]
            /\ blocked' = [blocked EXCEPT ![s] =
                              IF flock[c] \ {s} # {} THEN c ELSE ""]
            /\ cache0' = [cache0 EXCEPT ![s] =
                             IF flock[c] \ {s} # {} THEN cache[s]
                             ELSE EmptyCache]
            /\ UNCHANGED result
    /\ UNCHANGED <<flock, now, fd, cache, methods, attrs, positions, paths>>
    /\ UNCHANGED <<position, answer>>

\* add_<preset_type>(name, value, comment)
Add(s, N, V) ==
    \E c \in Cats, name \in N, value \in V, comment \in ArgComments :
        /\ <<"presets", "add_", c>> \in attrs[s]
        /\ BeginUpdate(s, c, name, value, comment, TRUE)

\* a variant that stores the origin instead of asking the device
AddHere_Origin(s, N) ==
    \E c \in Cats, name \in N, comment \in ArgComments :
        /\ <<"presets", "add_here_", c>> \in attrs[s]
        /\ BeginUpdate(s, c, name, Real(0), comment, TRUE)

\* add_here_<preset_type>(name, comment): add with the value wm()
AddHere(s, N) ==
    \E c \in Cats, name \in N, comment \in ArgComments :
        /\ <<"presets", "add_here_", c>> \in attrs[s]
        /\ BeginUpdate(s, c, name, Real(position), comment, TRUE)

\* PresetPosition.update_pos(pos, comment)
UpdatePos(s, N, V) ==
    \E c \in Cats, name \in N, pos \in V, comment \in ArgComments :
        BeginUpdate(s, c, name, pos, comment, TRUE)

\* PresetPosition.update_comment(comment)
UpdateComment(s, N) ==
    \E c \in Cats, name \in N, comment \in ArgComments :
        BeginUpdate(s, c, name, PyNone, comment, TRUE)

\* PresetPosition.deactivate()
Deactivate(s, N) ==
    \E c \in Cats, name \in N :
        BeginUpdate(s, c, name, PyNone, NoComment, FALSE)

(***************************************************************************)
(* Presets._file_open_rlock, when the store has no handle.                 *)
(***************************************************************************)
\* fcntl.flock(fd, LOCK_EX) returns: the lock is free
Flock(s) ==
    /\ pc[s] = "flock"
    /\ flock[LockCat(s)] = {}
    /\ flock' = [flock EXCEPT ![LockCat(s)] = @ \cup {s}]
    /\ pc' = [pc EXCEPT ![s] = "nb"]
    /\ UNCHANGED <<exists, content, now, fd, cache, methods, attrs, positions,
                   paths, frame, result, logged, calls, blocked, cache0>>
    /\ UNCHANGED <<position, answer>>

\* the timer interrupts the blocking flock: the lock is still held elsewhere
Timeout(s) ==
    /\ pc[s] = "flock"
    /\ flock[LockCat(s)] # {}
    /\ pc' = [pc EXCEPT ![s] = "nb"]
    /\ UNCHANGED <<exists, content, flock, now, fd, cache, methods, attrs,
                   positions, paths, frame, result, logged, calls, blocked,
                   cache0>>
    /\ UNCHANGED <<position, answer>>

\* a variant in which sync does not catch the BlockingIOError
FlockNB_Uncaught(s) ==
    /\ pc[s] = "nb"
    /\ IF LockNB(flock[LockCat(s)], s)
       THEN /\ flock' = [flock EXCEPT ![LockCat(s)] = @ \cup {s}]
            /\ fd' = [fd EXCEPT ![s] = OpenFd(LockCat(s))]
            /\ pc' = [pc EXCEPT ![s] = IF frame[s].ctx = "update"
                                       THEN "body" ELSE "read"]
            /\ UNCHANGED <<frame, logged, result>>
       ELSE /\ IF frame[s].ctx = "update"
               THEN /\ logged' = [logged EXCEPT ![s] = TRUE]
                    /\ pc' = [pc EXCEPT ![s] = "sync"]
                    /\ UNCHANGED <<frame, result>>
               ELSE /\ Raise(s, "BlockingIOError")
                    /\ UNCHANGED logged
            /\ UNCHANGED <<flock, fd>>
    /\ UNCHANGED <<exists, content, now, cache, methods, attrs, positions,
                   paths, calls, blocked, cache0>>
    /\ UNCHANGED <<position, answer>>

\* fcntl.flock(fd, LOCK_EX | LOCK_NB), then either the yield or the
\* BlockingIOError, which _update and sync catch and log
FlockNB(s) ==
    /\ pc[s] = "nb"
    /\ IF LockNB(flock[LockCat(s)], s)
       THEN /\ flock' = [flock EXCEPT ![LockCat(s)] = @ \cup {s}]
            /\ fd' = [fd EXCEPT ![s] = OpenFd(LockCat(s))]
            /\ pc' = [pc EXCEPT ![s] = IF frame[s].ctx = "update"
                                       THEN "body" ELSE "read"]
            /\ UNCHANGED <<frame, logged>>
       ELSE /\ logged' = [logged EXCEPT ![s] = TRUE]
            /\ pc' = [pc EXCEPT ![s] = IF frame[s].ctx = "update"
                                       THEN "sync" ELSE "next"]
            /\ frame' = [frame EXCEPT ![s].todo =
                            IF frame[s].ctx = "update" THEN @ ELSE Tail(@)]
            /\ UNCHANGED <<flock, fd>>
    /\ UNCHANGED <<exists, content, now, cache, methods, attrs, positions,
                   paths, result, calls, blocked, cache0>>
    /\ UNCHANGED <<position, answer>>

(***************************************************************************)
(* Presets._update inside the with statement.                              *)
(***************************************************************************)
\* data = self._read(preset_type), a nested scope, and the changes to data
UpdateBody(s) ==
    LET c == frame[s].cat
        f == frame[s]
        r == Read(fd[s], content[c])
        fdN == RlockExitFd(fd[s], FALSE, r.err # "")
        lockN == RlockExitLock(flock[c], s, FALSE, r.err # "")
        u == UpdateData(r.data, f.name, f.value, f.comment, f.active,
                        Strftime(now))
        err == IF r.err # "" THEN r.err ELSE u.err
    IN  /\ pc[s] = "body"
        /\ IF err # ""
           THEN /\ Raise(s, err)
                /\ fd' = [fd EXCEPT ![s] = RlockExitFd(fdN, f.owner, TRUE)]
                /\ flock' = [flock EXCEPT ![c] =
                                RlockExitLock(lockN, s, f.owner, TRUE)]
           ELSE /\ pc' = [pc EXCEPT ![s] = "write"]
                /\ frame' = [frame EXCEPT ![s].data = u.data]
                /\ fd' = [fd EXCEPT ![s] = fdN]
                /\ flock' = [flock EXCEPT ![c] = lockN]
                /\ UNCHANGED result
        /\ IF s \in flock[c] /\ s \notin flock'[c]
           THEN Release(c) ELSE UNCHANGED <<blocked, cache0>>
        /\ UNCHANGED <<exists, content, now, cache, methods, attrs, positions,
                       paths, logged, calls>>
        /\ UNCHANGED <<position, answer>>

\* a variant that does not replace what the file held: the old text stays
\* in the file next to the new one
Write_KeepOld(s) ==
    LET c == frame[s].cat
    IN  /\ pc[s] = "write"
        /\ IF fd[s].st = "open"
           THEN /\ content' = [content EXCEPT ![c] =
                                  IF content[c].kind = "yaml" THEN Garbage
                                  ELSE Yaml(frame[s].data)]
                /\ pc' = [pc EXCEPT ![s] = "exit"]
                /\ fd' = [fd EXCEPT ![s] = RlockExitFd(fd[s], FALSE, FALSE)]
                /\ flock' = [flock EXCEPT ![c] =
                                RlockExitLock(flock[c], s, FALSE, FALSE)]
                /\ UNCHANGED <<result, frame>>
           ELSE /\ Raise(s, "ValueError")
                /\ UNCHANGED <<content, fd, flock>>
        /\ IF s \in flock[c] /\ s \notin flock'[c]
           THEN Release(c) ELSE UNCHANGED <<blocked, cache0>>
        /\ UNCHANGED <<exists, now, cache, methods, attrs, positions, paths,
                       logged, calls>>
        /\ UNCHANGED <<position, answer>>

\* a variant that also patches the cache with the document written
Write_PatchCache(s) ==
    LET c == frame[s].cat
    IN  /\ pc[s] = "write"
        /\ IF fd[s].st = "open"
           THEN /\ content' = [content EXCEPT ![c] = Yaml(frame[s].data)]
                /\ cache' = [cache EXCEPT ![s] = (c :> frame[s].data) @@ @]
                /\ pc' = [pc EXCEPT ![s] = "exit"]
                /\ fd' = [fd EXCEPT ![s] = RlockExitFd(fd[s], FALSE, FALSE)]
                /\ flock' = [flock EXCEPT ![c] =
                                RlockExitLock(flock[c], s, FALSE, FALSE)]
                /\ UNCHANGED <<result, frame>>
           ELSE /\ Raise(s, "ValueError")
                /\ UNCHANGED <<content, fd, flock, cache>>
        /\ IF s \in flock[c] /\ s \notin flock'[c]
           THEN Release(c) ELSE UNCHANGED <<blocked, cache0>>
        /\ UNCHANGED <<exists, now, methods, attrs, positions, paths,
                       logged, calls>>
        /\ UNCHANGED <<position, answer>>

\* self._write(preset_type, data), a nested scope
Write(s) ==
    LET c == frame[s].cat
    IN  /\ pc[s] = "write"
        /\ IF fd[s].st = "open"
           THEN /\ content' = [content EXCEPT ![c] = Yaml(frame[s].data)]
                /\ pc' = [pc EXCEPT ![s] = "exit"]
                /\ fd' = [fd EXCEPT ![s] = RlockExitFd(fd[s], FALSE, FALSE)]
                /\ flock' = [flock EXCEPT ![c] =
                                RlockExitLock(flock[c], s, FALSE, FALSE)]
                /\ UNCHANGED <<result, frame>>
           ELSE /\ Raise(s, "ValueError")
                /\ UNCHANGED <<content, fd, flock>>
        /\ IF s \in flock[c] /\ s \notin flock'[c]
           THEN Release(c) ELSE UNCHANGED <<blocked, cache0>>
        /\ UNCHANGED <<exists, now, cache, methods, attrs, positions, paths,
                       logged, calls>>
        /\ UNCHANGED <<position, answer>>

\* the with statement of _update ends: flock(fd, LOCK_UN), close, _fd = None
UpdateExit(s) ==
    LET c == frame[s].cat
    IN  /\ pc[s] = "exit"
        /\ fd' = [fd EXCEPT ![s] = RlockExitFd(fd[s], frame[s].owner, FALSE)]
        /\ flock' = [flock EXCEPT ![c] =
                        RlockExitLock(flock[c], s, frame[s].owner, FALSE)]
        /\ pc' = [pc EXCEPT ![s] = "sync"]
        /\ IF s \in flock[c] /\ s \notin flock'[c]
           THEN Release(c) ELSE UNCHANGED <<blocked, cache0>>
        /\ UNCHANGED <<exists, content, now, cache, methods, attrs, positions,
                       paths, frame, result, logged, calls>>
        /\ UNCHANGED <<position, answer>>

(***************************************************************************)
(* Presets.sync.                                                           *)
(***************************************************************************)
\* a variant that removes nothing: the accessors of each sync pile up
SyncStart_KeepMethods(s) ==
    /\ attrs' = attrs
    /\ methods' = methods
    /\ positions' = [positions EXCEPT ![s] = EmptyDoc]
    /\ cache' = [cache EXCEPT ![s] = EmptyCache]
    /\ frame' = [frame EXCEPT ![s] =
                    [(IF logged[s] THEN NoFrame ELSE @) EXCEPT
                         !.ctx = "sync", !.todo = paths[s],
                         !.comment = NoComment, !.data = EmptyDoc,
                         !.owner = FALSE]]
    /\ pc' = [pc EXCEPT ![s] = "next"]

\* a variant that forgets the list of accessors without removing them
SyncStart_KeepAttrs(s) ==
    /\ attrs' = attrs
    /\ methods' = [methods EXCEPT ![s] = << >>]
    /\ positions' = [positions EXCEPT ![s] = EmptyDoc]
    /\ cache' = [cache EXCEPT ![s] = EmptyCache]
    /\ frame' = [frame EXCEPT ![s] =
                    [(IF logged[s] THEN NoFrame ELSE @) EXCEPT
                         !.ctx = "sync", !.todo = paths[s],
                         !.comment = NoComment, !.data = EmptyDoc,
                         !.owner = FALSE]]
    /\ pc' = [pc EXCEPT ![s] = "next"]

\* a variant that does not clear the cache
SyncStart_KeepCache(s) ==
    /\ attrs' = [attrs EXCEPT ![s] = @ \ SeqSet(methods[s])]
    /\ methods' = [methods EXCEPT ![s] = << >>]
    /\ positions' = [positions EXCEPT ![s] = EmptyDoc]
    /\ cache' = cache
    /\ frame' = [frame EXCEPT ![s] =
                    [(IF logged[s] THEN NoFrame ELSE @) EXCEPT
                         !.ctx = "sync", !.todo = paths[s],
                         !.comment = NoComment, !.data = EmptyDoc,
                         !.owner = FALSE]]
    /\ pc' = [pc EXCEPT ![s] = "next"]

\* _remove_methods and self._cache = {}; the arguments of the method that
\* called sync (add, update_pos, ...) stay in its frame when its update was
\* written
SyncStart(s) ==
    /\ attrs' = [attrs EXCEPT ![s] = @ \ SeqSet(methods[s])]
    /\ methods' = [methods EXCEPT ![s] = << >>]
    /\ positions' = [positions EXCEPT ![s] = EmptyDoc]
    /\ cache' = [cache EXCEPT ![s] = EmptyCache]
    /\ frame' = [frame EXCEPT ![s] =
                    [(IF logged[s] THEN NoFrame ELSE @) EXCEPT
                         !.ctx = "sync", !.todo = paths[s],
                         !.comment = NoComment, !.data = EmptyDoc,
                         !.owner = FALSE]]
    /\ pc' = [pc EXCEPT ![s] = "next"]

\* a call of sync()
Sync(s) ==
    /\ pc[s] = "idle"
    /\ calls < MaxCalls
    /\ calls' = calls + 1
    /\ logged' = [logged EXCEPT ![s] = FALSE]
    /\ blocked' = [blocked EXCEPT ![s] = ""]
    /\ cache0' = [cache0 EXCEPT ![s] = EmptyCache]
    /\ SyncStart(s)
    /\ UNCHANGED <<exists, content, flock, now, fd, paths, result>>
    /\ UNCHANGED <<position, answer>>

\* a variant that takes every storage file for an existing one
PathExists_Always(ex, c) == TRUE

\* path.exists() for the storage file of preset type c
PathExists(ex, c) == ex[c]

\* the self.sync() that follows self._update(...) in add, update_pos,
\* update_comment and deactivate, and the preset.sync() of
\* setup_preset_paths
SyncAfterUpdate(s) ==
    /\ pc[s] = "sync"
    /\ SyncStart(s)
    /\ UNCHANGED <<exists, content, flock, now, fd, paths, result, logged,
                   calls, blocked, cache0>>
    /\ UNCHANGED <<position, answer>>

\* one turn of the loop over the preset types, up to the lock; after the
\* loop, _create_methods
SyncNext(s) ==
    /\ pc[s] = "next"
    /\ IF frame[s].todo = << >>
       THEN /\ methods' = [methods EXCEPT ![s] =
                              @ \o CreateMethods(paths[s], cache[s])]
            /\ attrs' = [attrs EXCEPT ![s] =
                            @ \cup SeqSet(CreateMethods(paths[s], cache[s]))]
            /\ positions' = [positions EXCEPT ![s] =
                                CreatePositions(paths[s], cache[s])]
            /\ pc' = [pc EXCEPT ![s] = "idle"]
            /\ result' = [result EXCEPT ![s] = "ok"]
            /\ frame' = [frame EXCEPT ![s] = NoFrame]
       ELSE /\ IF ~PathExists(exists, Head(frame[s].todo))
               THEN /\ frame' = [frame EXCEPT ![s].todo = Tail(@)]
                    /\ UNCHANGED pc
               ELSE /\ frame' = [frame EXCEPT ![s].owner = (fd[s] = NoFd)]
                    /\ pc' = [pc EXCEPT ![s] = IF fd[s] = NoFd THEN "flock"
                                               ELSE "read"]
            /\ UNCHANGED <<methods, attrs, positions, result>>
    /\ UNCHANGED <<exists, content, flock, now, fd, cache, paths, logged,
                   calls, blocked, cache0>>
    /\ UNCHANGED <<position, answer>>

\* self._cache[preset_type] = self._read(preset_type), inside the lock scope
SyncRead(s) ==
    LET c == Head(frame[s].todo)
        r == Read(fd[s], content[c])
    IN  /\ pc[s] = "read"
        /\ fd' = [fd EXCEPT ![s] =
                     RlockExitFd(fd[s], frame[s].owner, r.err # "")]
        /\ flock' = [flock EXCEPT ![c] =
                        RlockExitLock(flock[c], s, frame[s].owner,
                                      r.err # "")]
        /\ IF s \in flock[c] /\ s \notin flock'[c]
           THEN Release(c) ELSE UNCHANGED <<blocked, cache0>>
        /\ IF r.err # ""
           THEN /\ Raise(s, r.err)
                /\ UNCHANGED cache
           ELSE /\ cache' = [cache EXCEPT ![s] = (c :> r.data) @@ @]
                /\ frame' = [frame EXCEPT ![s].todo = Tail(@)]
                /\ pc' = [pc EXCEPT ![s] = "next"]
                /\ UNCHANGED result
        /\ UNCHANGED <<exists, content, now, methods, attrs, positions, paths,
                       logged, calls>>
        /\ UNCHANGED <<position, answer>>

(***************************************************************************)
(* The environment: time passes; another process takes and releases the    *)
(* lock of a storage file.  The clock stands still in Spec and SpecOne,    *)
(* whose properties do not depend on the time stamps of the history.       *)
(***************************************************************************)
Tick ==
    /\ now < MaxTime
    /\ now' = now + 1
    /\ UNCHANGED <<exists, content, flock, pc, fd, cache, methods, attrs,
                   positions, paths, frame, result, logged, calls, blocked,
                   cache0>>
    /\ UNCHANGED <<position, answer>>

ExtLock(c) ==
    /\ exists[c]
    /\ flock[c] = {}
    /\ \A d \in Cats : Ext \notin flock[d]
    /\ flock' = [flock EXCEPT ![c] = {Ext}]
    /\ UNCHANGED <<exists, content, now, pc, fd, cache, methods, attrs,
                   positions, paths, frame, result, logged, calls, blocked,
                   cache0>>
    /\ UNCHANGED <<position, answer>>

ExtUnlock(c) ==
    /\ Ext \in flock[c]
    /\ flock' = [flock EXCEPT ![c] = @ \ {Ext}]
    /\ Release(c)
    /\ UNCHANGED <<exists, content, now, pc, fd, cache, methods, attrs,
                   positions, paths, frame, result, logged, calls>>
    /\ UNCHANGED <<position, answer>>

(***************************************************************************)
(* Spec: two stores, in two processes, called with valid arguments, and    *)
(* one preset type.                                                        *)
(***************************************************************************)
Init == InitPaths(SubSeq(CatSeq, 1, 1))

Next ==
    \/ \E s \in Stores : Add(s, GoodNames, GoodValues)
    \/ \E s \in Stores : UpdatePos(s, GoodNames, GoodValues)
    \/ \E s \in Stores : UpdateComment(s, GoodNames)
    \/ \E s \in Stores : Deactivate(s, GoodNames)
    \/ \E s \in Stores : Flock(s)
    \/ \E s \in Stores : Timeout(s)
    \/ \E s \in Stores : FlockNB(s)
    \/ \E s \in Stores : UpdateBody(s)
    \/ \E s \in Stores : Write(s)
    \/ \E s \in Stores : UpdateExit(s)
    \/ \E s \in Stores : Sync(s)
    \/ \E s \in Stores : SyncAfterUpdate(s)
    \/ \E s \in Stores : SyncNext(s)
    \/ \E s \in Stores : SyncRead(s)

Spec == Init /\ [][Next]_vars

(***************************************************************************)
(* SpecOne: one store, called with any arguments, and a process that holds *)
(* locks.                                                                  *)
(***************************************************************************)
NextOne ==
    \/ Add("p1", ArgNames, ArgValues)
    \/ UpdatePos("p1", ArgNames, ArgValues)
    \/ UpdateComment("p1", ArgNames)
    \/ Deactivate("p1", ArgNames)
    \/ Flock("p1")
    \/ Timeout("p1")
    \/ FlockNB("p1")
    \/ UpdateBody("p1")
    \/ Write("p1")
    \/ UpdateExit("p1")
    \/ Sync("p1")
    \/ SyncAfterUpdate("p1")
    \/ SyncNext("p1")
    \/ SyncRead("p1")
    \/ \E c \in Cats : ExtLock(c)
    \/ \E c \in Cats : ExtUnlock(c)

InitOne == InitPaths(CatSeq)

SpecOne == InitOne /\ [][NextOne]_vars

(***************************************************************************)
(* SpecHist: one store, constructed when storage files already exist, and  *)
(* a clock that runs, so that the time stamps of the history differ.       *)
(***************************************************************************)
\* the documents a storage file holds when the store is constructed: none,
\* preset a added once, preset a added and deactivated
StartDocs ==
    LET added == UpdateData(EmptyDoc, "a", Real(Unit), NoComment, TRUE, 0).data
    IN  {EmptyDoc, added,
         UpdateData(added, "a", PyNone, NoComment, FALSE, 0).data}

\* a file that holds document d; the store never writes an empty document,
\* a file without records is the empty file that _update creates
FileOf(d) == IF d = EmptyDoc THEN EmptyFile ELSE Yaml(d)

\* every store has been constructed while the files of the preset types in
\* DOMAIN d existed and held the documents d[c]; the mover is at pos
InitFiles(p, d, pos) ==
    LET ch == [c \in DOMAIN d \cap SeqSet(p) |-> d[c]]
    IN  /\ exists = [c \in Cats |-> c \in DOMAIN d]
        /\ content = [c \in Cats |-> IF c \in DOMAIN d THEN FileOf(d[c])
                                     ELSE EmptyFile]
        /\ flock = [c \in Cats |-> {}]
        /\ now = 0
        /\ pc = [s \in Stores |-> "idle"]
        /\ fd = [s \in Stores |-> NoFd]
        /\ cache = [s \in Stores |-> ch]
        /\ methods = [s \in Stores |-> CreateMethods(p, ch)]
        /\ attrs = [s \in Stores |-> SeqSet(CreateMethods(p, ch))]
        /\ positions = [s \in Stores |-> CreatePositions(p, ch)]
        /\ paths = [s \in Stores |-> p]
        /\ frame = [s \in Stores |-> NoFrame]
        /\ result = [s \in Stores |-> "none"]
        /\ logged = [s \in Stores |-> FALSE]
        /\ calls = 0
        /\ blocked = [s \in Stores |-> ""]
        /\ cache0 = [s \in Stores |-> EmptyCache]
        /\ position = pos
        /\ answer = [s \in Stores |-> ""]

\* the first preset type has any of the documents, the second one has no
\* file or the active preset a
InitHist ==
    \E D \in SUBSET Cats : \E d \in [D -> StartDocs] :
        /\ \A c \in D \ {CatSeq[1]} : "a" \in DOMAIN d[c] /\ d[c]["a"].active
        /\ InitFiles(CatSeq, d, 0)

\* the store is called for preset a only
HistNames == {Str("a")}

NextHist ==
    \/ Add("p1", HistNames, GoodValues)
    \/ UpdatePos("p1", HistNames, GoodValues)
    \/ UpdateComment("p1", HistNames)
    \/ Deactivate("p1", HistNames)
    \/ Flock("p1")
    \/ FlockNB("p1")
    \/ UpdateBody("p1")
    \/ Write("p1")
    \/ UpdateExit("p1")
    \/ Sync("p1")
    \/ SyncAfterUpdate("p1")
    \/ SyncNext("p1")
    \/ SyncRead("p1")
    \/ Tick

SpecHist == InitHist /\ [][NextHist]_vars

(***************************************************************************)
(* SpecConf: one store, constructed when storage files already exist,      *)
(* whose preset types are configured again by setup_preset_paths.          *)
(***************************************************************************)
\* the lists of preset types given to setup_preset_paths
PathOptions == {SubSeq(CatSeq, 1, k) : k \in 0..Len(CatSeq)}

\* setup_preset_paths(**paths) in the process of store s, with the preset
\* types p: Presets._paths is replaced, then the store is synced
SetupPaths(s, p) ==
    /\ pc[s] = "idle"
    /\ calls < MaxCalls
    /\ calls' = calls + 1
    /\ paths' = [paths EXCEPT ![s] = p]
    /\ pc' = [pc EXCEPT ![s] = "sync"]
    /\ logged' = [logged EXCEPT ![s] = FALSE]
    /\ blocked' = [blocked EXCEPT ![s] = ""]
    /\ cache0' = [cache0 EXCEPT ![s] = EmptyCache]
    /\ UNCHANGED <<exists, content, flock, now, fd, cache, methods, attrs,
                   positions, frame, result, position, answer>>

InitConf ==
    \E p \in PathOptions, D \in SUBSET Cats : \E d \in [D -> StartDocs] :
        InitFiles(p, d, 0)

NextConf ==
    \/ Add("p1", HistNames, GoodValues)
    \/ Deactivate("p1", HistNames)
    \/ Flock("p1")
    \/ FlockNB("p1")
    \/ UpdateBody("p1")
    \/ Write("p1")
    \/ UpdateExit("p1")
    \/ Sync("p1")
    \/ \E p \in PathOptions : SetupPaths("p1", p)
    \/ SyncAfterUpdate("p1")
    \/ SyncNext("p1")
    \/ SyncRead("p1")

SpecConf == InitConf /\ [][NextConf]_vars

(***************************************************************************)
(* Presets.state and the wm_<name> accessors, and SpecState: one store,    *)
(* constructed over presets near 10, and a mover that moves.               *)
(***************************************************************************)
\* a variant with the opposite sign
WmPre_Reversed(ch, c, n, pos) == pos - ch[c][n].value

\* wm_pre of preset n of preset type c: the preset position minus wm()
WmPre(ch, c, n, pos) == ch[c][n].value - pos

\* closest = 0.5
Closest == Unit \div 2

\* the loop of state() over the list m of registered accessors; getattr
\* finds the wm_<name> registered last, the one of the handle ps[name]
RECURSIVE StateLoop(_, _, _, _, _, _)
StateLoop(m, ch, ps, pos, state, closest) ==
    IF m = << >> THEN state
    ELSE LET name == Head(m)[3]
             diff == WmPre(ch, ps[name], name, pos)
         IN  IF Head(m)[2] = "wm_" /\ diff < closest
             THEN StateLoop(Tail(m), ch, ps, pos, name, diff)
             ELSE StateLoop(Tail(m), ch, ps, pos, state, closest)

State(m, ch, ps, pos) == StateLoop(m, ch, ps, pos, "Unknown", Closest)

\* a call of presets.state()
CallState(s) ==
    /\ pc[s] = "idle"
    /\ answer' = [answer EXCEPT ![s] =
                      State(methods[s], cache[s], positions[s], position)]
    /\ UNCHANGED <<exists, content, flock, now, pc, fd, cache, methods, attrs,
                   positions, paths, frame, result, logged, calls, blocked,
                   cache0, position>>

\* the mover moves to p
Move(p) ==
    /\ position' = p
    /\ UNCHANGED <<exists, content, flock, now, pc, fd, cache, methods, attrs,
                   positions, paths, frame, result, logged, calls, blocked,
                   cache0, answer>>

\* preset positions 10.0 and 10.3; mover positions 5.0, 9.8, 10.0, 10.15
\* (half-way between the presets), 10.2, 10.4 and 20.0
StateValues == {Real(10 * Unit), Real(103 * (Unit \div 10))}
StatePositions == {5 * Unit, 98 * (Unit \div 10), 10 * Unit,
                   1015 * (Unit \div 100), 102 * (Unit \div 10),
                   104 * (Unit \div 10), 20 * Unit}

\* document d after add_<type>(n, v) and, for an inactive preset, deactivate()
PresetDoc(d, n, v, active) ==
    LET added == UpdateData(d, n, v, NoComment, TRUE, 0).data
    IN  IF active THEN added
        ELSE UpdateData(added, n, PyNone, NoComment, FALSE, 0).data

\* the documents with any of the presets a and b, active or not
WithPreset(d, n) ==
    {d} \cup {PresetDoc(d, n, v, act) : v \in StateValues, act \in BOOLEAN}

StateDocs == UNION {WithPreset(d, "b") : d \in WithPreset(EmptyDoc, "a")}

InitState ==
    \E d \in StateDocs, p \in StatePositions :
        InitFiles(SubSeq(CatSeq, 1, 1), (CatSeq[1] :> d), p)

NextState ==
    \/ \E p \in StatePositions : Move(p)
    \/ CallState("p1")
    \/ Deactivate("p1", GoodNames)
    \/ Flock("p1")
    \/ FlockNB("p1")
    \/ UpdateBody("p1")
    \/ Write("p1")
    \/ UpdateExit("p1")
    \/ SyncAfterUpdate("p1")
    \/ SyncNext("p1")
    \/ SyncRead("p1")

SpecState == InitState /\ [][NextState]_vars

(***************************************************************************)
(* SpecBad: one store, constructed when storage files already exist, and a *)
(* user who overwrites a storage file with text that is not YAML.          *)
(***************************************************************************)
\* another program replaces the content of the storage file of c
ExtCorrupt(c) ==
    /\ exists[c]
    /\ content[c] # Garbage
    /\ content' = [content EXCEPT ![c] = Garbage]
    /\ UNCHANGED <<exists, flock, now, pc, fd, cache, methods, attrs,
                   positions, paths, frame, result, logged, calls, blocked,
                   cache0, position, answer>>

NextBad ==
    \/ Add("p1", HistNames, GoodValues)
    \/ Deactivate("p1", HistNames)
    \/ Flock("p1")
    \/ FlockNB("p1")
    \/ UpdateBody("p1")
    \/ Write("p1")
    \/ UpdateExit("p1")
    \/ Sync("p1")
    \/ SyncAfterUpdate("p1")
    \/ SyncNext("p1")
    \/ SyncRead("p1")
    \/ \E c \in Cats : ExtCorrupt(c)

SpecBad == InitHist /\ [][NextBad]_vars

(***************************************************************************)
(* SpecHere: one store with two preset types and no storage file yet, a    *)
(* mover that moves, and a process that holds locks; presets are added     *)
(* with add_here_<type>.                                                   *)
(***************************************************************************)
\* where the mover goes: 1.0 and 2.00003 (it starts at 0.0)
HerePositions == {Unit, 2 * Unit + 3}

NextHere ==
    \/ \E p \in HerePositions : Move(p)
    \/ AddHere("p1", HistNames)
    \/ Flock("p1")
    \/ Timeout("p1")
    \/ FlockNB("p1")
    \/ UpdateBody("p1")
    \/ Write("p1")
    \/ UpdateExit("p1")
    \/ Sync("p1")
    \/ SyncAfterUpdate("p1")
    \/ SyncNext("p1")
    \/ SyncRead("p1")
    \/ \E c \in Cats : ExtLock(c)
    \/ \E c \in Cats : ExtUnlock(c)

SpecHere == InitOne /\ [][NextHere]_vars

(***************************************************************************)
(* setup_preset_paths in a process that has several stores, and SpecSetup: *)
(* both stores live in one process, so that Presets._paths and             *)
(* Presets._registry are theirs in common and their calls never overlap.   *)
(***************************************************************************)
\* no call is in progress in the process
AllIdle == \A s \in Stores : pc[s] = "idle"

\* a call of setup_preset_paths is in progress
InSetup == \E s \in Stores : frame[s].setup

\* setup_preset_paths(**paths) with the preset types p: Presets._paths is
\* replaced, for every store of the registry, and the loop over the registry
\* begins with the sync of one store (a WeakSet has no order of its own)
SetupRegistry(p) ==
    /\ AllIdle
    /\ calls < MaxCalls
    /\ calls' = calls + 1
    /\ paths' = [s \in Stores |-> p]
    /\ \E s0 \in Stores :
           pc' = [s \in Stores |-> IF s = s0 THEN "sync" ELSE "queued"]
    /\ frame' = [s \in Stores |-> [NoFrame EXCEPT !.setup = TRUE]]
    /\ logged' = [s \in Stores |-> FALSE]
    /\ blocked' = [s \in Stores |-> ""]
    /\ cache0' = [s \in Stores |-> EmptyCache]
    /\ result' = [s \in Stores |-> "none"]
    /\ UNCHANGED <<exists, content, flock, now, fd, cache, methods, attrs,
                   positions, position, answer>>

\* the loop of setup_preset_paths after the sync of a store: the sync of the
\* next store, or, when the sync has raised, the end of the call with the
\* other stores left as they were
SetupNext ==
    /\ \E t \in Stores : pc[t] = "queued"
    /\ \A s \in Stores : pc[s] \in {"idle", "queued"}
    /\ IF \A s \in Stores : pc[s] = "idle" => result[s] = "ok"
       THEN /\ \E t \in Stores :
                   /\ pc[t] = "queued"
                   /\ pc' = [pc EXCEPT ![t] = "sync"]
            /\ UNCHANGED frame
       ELSE /\ pc' = [s \in Stores |-> "idle"]
            /\ frame' = [s \in Stores |-> NoFrame]
    /\ UNCHANGED <<exists, content, flock, now, fd, cache, methods, attrs,
                   positions, paths, result, logged, calls, blocked, cache0,
                   position, answer>>

NextSetup ==
    \/ \E p \in PathOptions : SetupRegistry(p)
    \/ SetupNext
    \/ \E s \in Stores : AllIdle /\ Add(s, HistNames, GoodValues)
    \/ \E s \in Stores : AllIdle /\ Deactivate(s, HistNames)
    \/ \E s \in Stores : Flock(s)
    \/ \E s \in Stores : FlockNB(s)
    \/ \E s \in Stores : UpdateBody(s)
    \/ \E s \in Stores : Write(s)
    \/ \E s \in Stores : UpdateExit(s)
    \/ \E s \in Stores : SyncAfterUpdate(s)
    \/ \E s \in Stores : SyncNext(s)
    \/ \E s \in Stores : SyncRead(s)

SpecSetup == InitConf /\ [][NextSetup]_vars

(***************************************************************************)
(* Presets._read called on its own, and SpecRead: one store, constructed   *)
(* when storage files may exist, whose _read is called for any configured  *)
(* preset type, with or without a file.                                    *)
(***************************************************************************)
\* self._read(c), outside any lock scope of the call: open(path, 'r+'), the
\* two flocks, seek and yaml.full_load(f) or {}, the unlock.  The outcome is
\* kept in the frame until the call returns
CallRead(s, c) ==
    LET owner == fd[s] = NoFd
        f == IF owner THEN OpenFd(c) ELSE fd[s]
        r == IF owner /\ ~PathExists(exists, c)
             THEN [err |-> "FileNotFoundError", data |-> EmptyDoc]
             ELSE IF owner /\ ~LockNB(flock[c], s)
             THEN [err |-> "BlockingIOError", data |-> EmptyDoc]
             ELSE Read(f, content[c])
        entered == ~owner \/ (PathExists(exists, c) /\ LockNB(flock[c], s))
    IN  /\ pc[s] = "idle"
        /\ calls < MaxCalls
        /\ c \in SeqSet(paths[s])
        /\ calls' = calls + 1
        /\ pc' = [pc EXCEPT ![s] = "ret"]
        /\ frame' = [frame EXCEPT ![s] =
                         [NoFrame EXCEPT !.ctx = "read", !.cat = c,
                                         !.data = r.data, !.owner = owner]]
        /\ result' = [result EXCEPT ![s] = IF r.err = "" THEN "ok" ELSE r.err]
        /\ fd' = [fd EXCEPT ![s] = IF entered
                                   THEN RlockExitFd(f, owner, r.err # "")
                                   ELSE @]
        /\ logged' = [logged EXCEPT ![s] = FALSE]
        /\ UNCHANGED <<exists, content, flock, now, cache, methods, attrs,
                       positions, paths, blocked, cache0, position, answer>>

\* the call of _read returns or raises
ReadReturn(s) ==
    /\ pc[s] = "ret"
    /\ pc' = [pc EXCEPT ![s] = "idle"]
    /\ frame' = [frame EXCEPT ![s] = NoFrame]
    /\ UNCHANGED <<exists, content, flock, now, fd, cache, methods, attrs,
                   positions, paths, result, logged, calls, blocked, cache0,
                   position, answer>>

NextRead ==
    \/ \E c \in Cats : CallRead("p1", c)
    \/ ReadReturn("p1")
    \/ Add("p1", HistNames, GoodValues)
    \/ Deactivate("p1", HistNames)
    \/ Flock("p1")
    \/ FlockNB("p1")
    \/ UpdateBody("p1")
    \/ Write("p1")
    \/ UpdateExit("p1")
    \/ Sync("p1")
    \/ SyncAfterUpdate("p1")
    \/ SyncNext("p1")
    \/ SyncRead("p1")

SpecRead == InitHist /\ [][NextRead]_vars

(***************************************************************************)
(* Properties.                                                             *)
(***************************************************************************)
InScope(s) == pc[s] \in {"body", "write", "exit", "read"}

DocOf(file) == IF file.kind = "yaml" THEN file.data ELSE EmptyDoc

\* PresetPosition(presets, c, n).pos: info['value'], from the cache ch
HandlePos(ch, c, n) == ch[c][n].value

\* the accessors that _create_methods sets on the device for preset n
DeviceMethods(n) ==
    {<<"device", "mv_", n>>, <<"device", "umv_", n>>, <<"device", "wm_", n>>}

\* what the configured preset types p hold on disk: the documents of the
\* storage files that exist
FileView(p) ==
    [c \in {d \in SeqSet(p) : exists[d]} |-> DocOf(content[c])]

\* the call of s ends: the last step of the sync that ends it
Completes(s) == pc[s] = "next" /\ pc'[s] = "idle"

\* C1: for every storage document at most one process holds its exclusive
\* lock, and a store that is about to write the document (Presets._write)
\* holds that lock through an open handle.
C1_LockedWrites ==
    \A c \in Cats :
        /\ Cardinality(flock[c]) <= 1
        /\ \A s \in Stores :
               pc[s] = "write" /\ frame[s].cat = c
                   => flock[c] = {s} /\ fd[s] = OpenFd(c)

C1_Witness ==
    \E s, t \in Stores :
        /\ s # t
        /\ pc[s] = "write" /\ frame[s].cat = "c1"
        /\ pc[t] = "nb" /\ frame[t].ctx = "update" /\ frame[t].cat = "c1"

\* C2: no update is lost.  The document a store writes is the document that
\* is on disk at that moment plus the store's own change: every other record
\* is kept, the record of the updated name gets the writer's value and active
\* flag, and keeps the history entries it had.
C2_NoLostUpdate ==
    [][\A s \in Stores :
          pc[s] = "write" /\ pc'[s] = "exit" =>
              LET c == frame[s].cat
                  n == frame[s].name
                  old == DocOf(content[c])
                  new == DocOf(content'[c])
              IN  /\ DOMAIN new = DOMAIN old \cup {n}
                  /\ \A m \in DOMAIN old \ {n} : new[m] = old[m]
                  /\ new[n].active = frame[s].active
                  /\ frame[s].value.t = "real"
                         => new[n].value = frame[s].value.v
                  /\ n \in DOMAIN old =>
                         \A i \in 1..Len(old[n].history) :
                             \E j \in 1..Len(new[n].history) :
                                 new[n].history[j].ts = old[n].history[i].ts
      ]_vars

C2_Witness ==
    /\ calls = 2
    /\ \A s \in Stores : pc[s] = "idle" /\ result[s] = "ok"
    /\ DOMAIN DocOf(content["c1"]) = {"a", "b"}
    /\ \A s \in Stores : "c1" \in DOMAIN cache[s]

\* C3 as claimed: an acquisition that timed out keeps waiting until it has
\* the lock; it never ends in a failure.
C3_NeverFails ==
    [][\A s \in Stores :
          pc[s] = "nb" => pc'[s] \in {"nb", "body", "read"}]_vars

\* C3 as amended: when the timer has stopped the blocking flock and another
\* process still holds the lock, the non-blocking second flock fails: the
\* store gets neither lock nor handle, the error is logged by _update or
\* sync and the document is left alone; the store gets the lock only when
\* no other process holds it at that moment.
C3_FailsWhenStillHeld ==
    [][\A s \in Stores :
          pc[s] = "nb" /\ pc'[s] # "nb" =>
              IF flock[LockCat(s)] \ {s} # {}
              THEN /\ logged'[s]
                   /\ fd'[s] = NoFd
                   /\ flock' = flock
                   /\ content' = content
                   /\ pc'[s] \in {"sync", "next"}
              ELSE /\ fd'[s] = OpenFd(LockCat(s))
                   /\ flock'[LockCat(s)] = {s}
                   /\ pc'[s] \in {"body", "read"}
      ]_vars

C3_Witness ==
    /\ pc["p1"] = "sync"
    /\ logged["p1"]
    /\ Ext \in flock["c1"]
    /\ frame["p1"].cat = "c1"

\* C4: when another process held the lock of the document during a whole
\* update call on it, the call has returned without raising.
C4_BlockedCallReturns ==
    \A s \in Stores :
        pc[s] = "idle" /\ blocked[s] # "" => result[s] = "ok"

\* C5 as claimed: when another process held the lock of the document during
\* a whole update call on it and the call has returned, the cache of the
\* store is what it was when the call began.
C5_CacheUnchanged ==
    \A s \in Stores :
        pc[s] = "idle" /\ blocked[s] # "" /\ result[s] = "ok"
            => cache[s] = cache0[s]

\* C5 as amended: when another process held the lock of the document during
\* a whole update call on it and the call has returned, the cache of the
\* store has no entry for the preset type of that document.
C5_CacheLosesLocked ==
    \A s \in Stores :
        pc[s] = "idle" /\ blocked[s] # "" /\ result[s] = "ok"
            => blocked[s] \notin DOMAIN cache[s]

C5_Witness ==
    /\ pc["p1"] = "idle" /\ blocked["p1"] = "c1" /\ result["p1"] = "ok"
    /\ "c1" \in DOMAIN cache0["p1"]
    /\ "c1" \notin DOMAIN cache["p1"]

\* C6: a store holds the lock of a document only inside a lock scope on that
\* document; once the scope is left, by a return or by an error raised in
\* its body, the store does not hold the lock.
C6_ReleasedOutsideScope ==
    \A s \in Stores, c \in Cats :
        s \in flock[c] => (pc[s] = "nb" \/ InScope(s)) /\ LockCat(s) = c

C6_Witness ==
    /\ pc["p1"] = "idle"
    /\ result["p1"] = "KeyError"
    /\ fd["p1"] = [st |-> "closed", cat |-> "c1"]
    /\ flock["c1"] = {Ext}

\* C7: between calls the store has no lock handle: _fd is None.
C7_NoHandleBetweenCalls ==
    \A s \in Stores : pc[s] = "idle" => fd[s] = NoFd

\* C8: the scopes of _read and _write nested in the scope of _update use the
\* handle of the outer scope and leave handle and lock as they are; the end
\* of the outer scope gives up the lock and the handle.
C8_Reentrant ==
    [][\A s \in Stores :
          /\ (pc[s] = "body" /\ pc'[s] = "write")
                 \/ (pc[s] = "write" /\ pc'[s] = "exit")
             => /\ fd[s] = OpenFd(frame[s].cat)
                /\ fd'[s] = fd[s]
                /\ flock'[frame[s].cat] = {s}
          /\ pc[s] = "exit" /\ pc'[s] = "sync"
             => /\ fd'[s] = NoFd
                /\ flock'[frame[s].cat] = {}
      ]_vars

C8_Witness ==
    /\ pc["p1"] = "exit"
    /\ fd["p1"] = OpenFd("c1")
    /\ flock["c1"] = {"p1"}
    /\ content["c1"].kind = "yaml"

\* C9: an update whose name is not a str or whose value is not a real never
\* gets past the checks, and the call that raises the TypeError creates no
\* file, writes no document, takes no lock and leaves the cache and the
\* installed accessors of the store as they are.
C9_ValidationFirst ==
    [][\A s \in Stores :
          /\ frame'[s].name # NotStr.s
          /\ frame'[s].value.t \in {"none", "real"}
          /\ calls' # calls /\ result'[s] = "TypeError" /\ pc[s] = "idle"
                 /\ frame'[s] = NoFrame /\ pc'[s] = "idle"
                 /\ (\A t \in Stores \ {s} : frame'[t] = frame[t])
             => UNCHANGED <<exists, content, flock, fd, cache, methods,
                            attrs, positions>>
      ]_vars

C9_Witness ==
    /\ result["p1"] = "TypeError"
    /\ \A c \in Cats : ~exists[c]
    /\ calls = 1

\* C10: no document ever holds a record whose name is the empty string.
C10_NoEmptyName ==
    \A c \in Cats : "" \notin DOMAIN DocOf(content[c])

\* C11: round trip.  When an update of name n with value v (add_<type> or
\* update_pos) has written the document and no other process writes it, then
\* at the end of the call the cache of the store holds the record n of the
\* document, with value v and active, and the handle of n reads v; the
\* record written for a name that the document did not have has exactly one
\* history entry.
C11_RoundTrip ==
    [][\A s \in Stores :
          LET c == frame[s].cat
              n == frame[s].name
          IN  /\ pc[s] = "write" /\ pc'[s] = "exit"
                     /\ frame[s].value.t = "real"
                     /\ n \notin DOMAIN DocOf(content[c])
                 => Len(DocOf(content'[c])[n].history) = 1
              /\ Completes(s) /\ c # "" /\ ~logged[s]
                     /\ frame[s].value.t = "real" /\ frame[s].active
                 => /\ c \in DOMAIN cache'[s]
                    /\ n \in DOMAIN cache'[s][c]
                    /\ cache'[s][c][n] = DocOf(content'[c])[n]
                    /\ cache'[s][c][n].value = frame[s].value.v
                    /\ cache'[s][c][n].active
                    /\ HandlePos(cache'[s], c, n) = frame[s].value.v
                    /\ n \in DOMAIN positions'[s]
      ]_vars

C11_Witness ==
    /\ pc["p1"] = "idle" /\ result["p1"] = "ok" /\ calls = 1
    /\ "c1" \in DOMAIN cache["p1"]
    /\ "a" \in DOMAIN cache["p1"]["c1"]
    /\ HandlePos(cache["p1"], "c1", "a") = 2 * Unit + 3
    /\ Len(cache["p1"]["c1"]["a"].history) = 1
    /\ positions["p1"]["a"] = "c1"

\* C12: the history is append-only.  An update that writes a value for a
\* name adds exactly one history entry for that name and leaves every entry
\* the record had as it was, whatever the time between two updates.
C12_HistoryAppendOnly ==
    [][\A s \in Stores :
          pc[s] = "write" /\ pc'[s] = "exit" /\ frame[s].value.t = "real" =>
              LET c == frame[s].cat
                  n == frame[s].name
                  old == DocOf(content[c])
                  h0 == IF n \in DOMAIN old THEN old[n].history ELSE << >>
                  h1 == DocOf(content'[c])[n].history
              IN  /\ Len(h1) = Len(h0) + 1
                  /\ \A i \in 1..Len(h0) : h1[i] = h0[i]
      ]_vars

\* C13: deactivation only clears the active flag.  The document written by
\* deactivate() is the document read with the active flag of the preset set
\* to false: the record keeps its value and its history.  Every sync puts
\* the whole document into the cache, so at the end of the call the cache
\* holds the inactive record as the document has it.
C13_DeactivateKeepsRecord ==
    [][\A s \in Stores :
          LET c == frame[s].cat
              n == frame[s].name
              isDeact == /\ frame[s].value.t = "none" /\ ~frame[s].active
          IN  /\ pc[s] = "write" /\ pc'[s] = "exit" /\ isDeact
                 => /\ n \in DOMAIN DocOf(content[c])
                    /\ DocOf(content'[c]) =
                           [DocOf(content[c]) EXCEPT ![n].active = FALSE]
              /\ pc[s] = "read" /\ pc'[s] = "next"
                 => cache'[s][LockCat(s)] = DocOf(content[LockCat(s)])
              /\ Completes(s) /\ c # "" /\ isDeact /\ ~logged[s]
                 => /\ c \in DOMAIN cache'[s]
                    /\ n \in DOMAIN cache'[s][c]
                    /\ ~cache'[s][c][n].active
                    /\ cache'[s][c][n] = DocOf(content'[c])[n]
      ]_vars

C13_Witness ==
    /\ pc["p1"] = "idle" /\ result["p1"] = "ok" /\ calls = 2
    /\ "c1" \in DOMAIN cache["p1"]
    /\ "a" \in DOMAIN cache["p1"]["c1"]
    /\ ~cache["p1"]["c1"]["a"].active
    /\ cache["p1"]["c1"]["a"].value = 2 * Unit + 3
    /\ Len(cache["p1"]["c1"]["a"].history) = 2

\* C14: deactivate, then reactivate.  At the end of a deactivate() of preset
\* n the device has none of mv_n, umv_n, wm_n; at the end of a later update
\* of n with active = true it has all three; and the history written by an
\* update that reactivates n contains every entry the record had.
C14_Reactivate ==
    [][\A s \in Stores :
          LET c == frame[s].cat
              n == frame[s].name
              old == DocOf(content[c])
          IN  /\ Completes(s) /\ c # "" /\ ~logged[s]
                 => IF frame[s].active
                    THEN DeviceMethods(n) \subseteq attrs'[s]
                    ELSE DeviceMethods(n) \cap attrs'[s] = {}
              /\ pc[s] = "write" /\ pc'[s] = "exit" /\ frame[s].active
                     /\ n \in DOMAIN old /\ ~old[n].active
                 => \A i \in 1..Len(old[n].history) :
                        \E j \in 1..Len(DocOf(content'[c])[n].history) :
                            DocOf(content'[c])[n].history[j] = old[n].history[i]
      ]_vars

\* C15: after the construction of a store and after every sync that
\* completes, the device has mv_n, umv_n and wm_n, and positions has a
\* handle n, exactly when some cached preset type has an active record n;
\* and whenever the device has an accessor of n, the record it reads (the
\* one of the handle n) is in the cache and active.
C15_AccessorsAgree ==
    \A s \in Stores, n \in SeqSet(NameSeq) :
        LET cached == \E c \in DOMAIN cache[s] :
                          n \in DOMAIN cache[s][c] /\ cache[s][c][n].active
        IN  /\ pc[s] = "idle" /\ result[s] \in {"none", "ok"}
               => /\ DeviceMethods(n) \subseteq attrs[s] <=> cached
                  /\ n \in DOMAIN positions[s] <=> cached
            /\ DeviceMethods(n) \cap attrs[s] # {}
               => /\ n \in DOMAIN positions[s]
                  /\ positions[s][n] \in DOMAIN cache[s]
                  /\ n \in DOMAIN cache[s][positions[s][n]]
                  /\ cache[s][positions[s][n]][n].active

C15_Witness ==
    /\ pc["p1"] = "idle" /\ result["p1"] = "ok" /\ calls = 2
    /\ DOMAIN cache["p1"] = {"c1", "c2"}
    /\ "a" \in DOMAIN cache["p1"]["c1"] /\ ~cache["p1"]["c1"]["a"].active
    /\ "a" \in DOMAIN cache["p1"]["c2"] /\ cache["p1"]["c2"]["a"].active
    /\ DeviceMethods("a") \subseteq attrs["p1"]
    /\ positions["p1"]["a"] = "c2"

\* C16: no stale accessors.  The list _methods names exactly the accessors
\* the store has installed; while a sync loads the documents nothing that
\* was installed before is left; and after a sync that completes the
\* installed accessors are those of the configured preset types and of the
\* active cached presets: no add_<type> or add_here_<type> of a preset type
\* that is not configured, no mv_, umv_ or wm_ of a preset that is not active.
C16_NoStaleAccessors ==
    \A s \in Stores :
        /\ attrs[s] = SeqSet(methods[s])
        /\ frame[s].ctx = "sync" => attrs[s] = {}
        /\ pc[s] = "idle" /\ result[s] \in {"none", "ok"}
           => /\ \A c \in Cats \ SeqSet(paths[s]) :
                     /\ <<"presets", "add_", c>> \notin attrs[s]
                     /\ <<"presets", "add_here_", c>> \notin attrs[s]
              /\ \A n \in SeqSet(NameSeq) :
                     DeviceMethods(n) \cap attrs[s] # {}
                         => \E c \in SeqSet(paths[s]) \cap DOMAIN cache[s] :
                                /\ n \in DOMAIN cache[s][c]
                                /\ cache[s][c][n].active

C16_Witness ==
    /\ pc["p1"] = "idle" /\ result["p1"] = "ok" /\ calls = 2
    /\ paths["p1"] = <<"c1">>
    /\ "a" \in DOMAIN DocOf(content["c2"])
    /\ DocOf(content["c2"])["a"].value = 2 * Unit + 3
    /\ DocOf(content["c2"])["a"].active
    /\ <<"presets", "add_", "c2">> \notin attrs["p1"]
    /\ DeviceMethods("a") \cap attrs["p1"] = {}

\* C17: sync is idempotent.  What a sync that met no lock held elsewhere
\* leaves behind depends on the documents only, not on what the store held
\* before: the cache is the documents of the configured preset types, and
\* the accessor list and the positions namespace are the ones created from
\* that cache.  So a second sync over unchanged documents leaves the cache,
\* the accessor list and the positions of the first.
C17_SyncIdempotent ==
    [][\A s \in Stores :
          Completes(s) /\ ~logged'[s] =>
              /\ content' = content /\ exists' = exists
              /\ cache'[s] = FileView(paths[s])
              /\ methods'[s] = CreateMethods(paths[s], FileView(paths[s]))
              /\ attrs'[s] = SeqSet(methods'[s])
              /\ positions'[s] = CreatePositions(paths[s], FileView(paths[s]))
      ]_vars

\* a second sync is about to complete: the first call was an add, which
\* ended with a sync, the second call is sync()
C17_Witness ==
    /\ pc["p1"] = "next" /\ frame["p1"].todo = << >>
    /\ frame["p1"].cat = "" /\ calls = 2 /\ ~logged["p1"]
    /\ cache["p1"] = FileView(paths["p1"])
    /\ \E c \in DOMAIN cache["p1"] : \E n \in DOMAIN cache["p1"][c] :
           cache["p1"][c][n].active

\* C18: a configured preset type without a storage file is no error for
\* sync.  The cache has entries only for configured preset types whose file
\* exists; a sync creates no file and changes no document; when the file of
\* the preset type at hand does not exist the sync goes on to the next one
\* without an error and without a cache entry for it.
C18_MissingFileSkipped ==
    /\ [](\A s \in Stores : \A c \in DOMAIN cache[s] :
             exists[c] /\ c \in SeqSet(paths[s]))
    /\ [][\A s \in Stores :
             /\ frame[s].ctx = "sync" /\ pc'[s] # pc[s]
                => exists' = exists /\ content' = content
             /\ pc[s] = "next" /\ frame[s].todo # << >>
                    /\ ~exists[Head(frame[s].todo)]
                    /\ frame'[s] # frame[s]
                => /\ pc'[s] = "next"
                   /\ frame'[s].todo = Tail(frame[s].todo)
                   /\ result'[s] = result[s] /\ logged'[s] = logged[s]
                   /\ cache'[s] = cache[s]
         ]_vars

C18_Witness ==
    /\ pc["p1"] = "idle" /\ result["p1"] = "ok" /\ calls = 2
    /\ paths["p1"] = CatSeq
    /\ exists["c1"] /\ ~exists["c2"]
    /\ DOMAIN cache["p1"] = {"c1"}
    /\ ~logged["p1"]

\* C19: a comment-only update (no value, a comment) of a record that the
\* document has writes the value the document has for it; a comment-only
\* update of a name that the document does not have ends in a KeyError and
\* leaves the document as it is.
C19_CommentOnly ==
    [][\A s \in Stores :
          LET c == frame[s].cat
              n == frame[s].name
              old == DocOf(content[c])
              commentOnly == /\ frame[s].ctx = "update"
                             /\ frame[s].value.t = "none"
                             /\ frame[s].comment.t # "none"
          IN  /\ commentOnly /\ pc[s] = "body" /\ pc'[s] # "body"
                 => /\ content' = content
                    /\ IF n \in DOMAIN old
                       THEN pc'[s] = "write"
                                => frame'[s].data[n].value = old[n].value
                       ELSE pc'[s] = "idle" /\ result'[s] = "KeyError"
              /\ commentOnly /\ pc[s] = "write" /\ pc'[s] = "exit"
                 => /\ n \in DOMAIN old
                    /\ DocOf(content'[c])[n].value = old[n].value
      ]_vars

\* C20: nearest-state selection.  When some active preset is less than 0.5
\* away from the position of the mover, state() returns an active preset
\* that is less than 0.5 away and at least as near, in absolute distance, as
\* every other active preset; with a = 10.0, b = 10.3 and the mover at 10.2
\* it returns b.
C20_NearestState ==
    \A s \in Stores :
        LET act == DOMAIN positions[s]
            off(n) == WmPre(cache[s], positions[s][n], n, position)
            dist(n) == IF off(n) < 0 THEN 0 - off(n) ELSE off(n)
            ans == State(methods[s], cache[s], positions[s], position)
        IN  pc[s] = "idle" /\ (\E n \in act : dist(n) < Closest)
                => /\ ans \in act
                   /\ dist(ans) < Closest
                   /\ \A n \in act : dist(ans) <= dist(n)

\* C21: state() returns the sentinel when no active preset is less than 0.5
\* away from the position of the mover, in absolute distance, be the presets
\* above or below the mover, and when there is no active preset at all.
C21_UnknownWhenFar ==
    \A s \in Stores :
        LET act == DOMAIN positions[s]
            off(n) == WmPre(cache[s], positions[s][n], n, position)
            dist(n) == IF off(n) < 0 THEN 0 - off(n) ELSE off(n)
        IN  pc[s] = "idle" /\ (\A n \in act : dist(n) >= Closest)
                => State(methods[s], cache[s], positions[s], position)
                       = "Unknown"

\* C22: the cache of a store is replaced only by the sync of that store.
\* A step that changes the cache of s is a step of a sync of s, its start
\* (the cache is emptied) or one of its reads; no step of the update of s
\* up to the end of its lock scope, and no step of another process, changes
\* it.
C22_CacheOnlyBySync ==
    [][\A s \in Stores :
          cache'[s] # cache[s] =>
              /\ pc[s] \in {"idle", "sync", "read"}
              /\ pc'[s] = "next"
              /\ frame'[s].ctx = "sync"
              /\ \A t \in Stores \ {s} : pc'[t] = pc[t] /\ frame'[t] = frame[t]
      ]_vars

\* the cache of s lags: t has added a preset after the last sync of s
C22_Witness ==
    \E s, t \in Stores :
        /\ s # t
        /\ pc[s] = "idle" /\ result[s] = "ok"
        /\ pc[t] = "idle" /\ result[t] = "ok"
        /\ "c1" \in DOMAIN cache[s] /\ "c1" \in DOMAIN cache[t]
        /\ cache[t]["c1"] = DocOf(content["c1"])
        /\ DOMAIN cache[s]["c1"] # DOMAIN cache[t]["c1"]

\* C23: a storage file that exists and cannot be deserialised makes the
\* sync fail.  The read of such a file ends the call of the store with an
\* error, the YAML error when the file was read, and puts no entry for the
\* preset type into the cache.
C23_BadFileFatal ==
    [][\A s \in Stores :
          pc[s] = "read" /\ pc'[s] # "read"
                 /\ content[LockCat(s)] = Garbage
              => /\ pc'[s] = "idle"
                 /\ result'[s] \in {"YAMLError", "ValueError"}
                 /\ fd[s].st = "open" => result'[s] = "YAMLError"
                 /\ LockCat(s) \notin DOMAIN cache'[s]
      ]_vars

\* sync has failed on the second preset type after loading the first
C23_Witness ==
    /\ pc["p1"] = "idle" /\ result["p1"] = "YAMLError"
    /\ content["c2"] = Garbage
    /\ DOMAIN cache["p1"] = {"c1"}
    /\ methods["p1"] = << >>

\* C24: wm_<name>() is the cached value of the preset minus the position of
\* the mover: positive exactly when the preset is above the mover, zero
\* exactly when the mover is at the preset.
C24_WmOffset ==
    \A s \in Stores : \A n \in DOMAIN positions[s] :
        LET v == HandlePos(cache[s], positions[s][n], n)
            w == WmPre(cache[s], positions[s][n], n, position)
        IN  <<"device", "wm_", n>> \in attrs[s]
                => /\ w + position = v
                   /\ w > 0 <=> v > position
                   /\ w = 0 <=> v = position

C24_Witness ==
    /\ pc["p1"] = "idle"
    /\ {<<"device", "wm_", "a">>, <<"device", "wm_", "b">>} \subseteq attrs["p1"]
    /\ WmPre(cache["p1"], "c1", "a", position) = 0
    /\ WmPre(cache["p1"], "c1", "b", position) = 3 * (Unit \div 10)
    /\ answer["p1"] # ""

\* the steps of a mutating call in their order: the document is written
\* while the store holds the lock; the end of the lock scope of _update
\* gives the lock up; the sync starts without any lock; each read of the
\* sync is made under a lock taken anew and loads the document as it is then
CallOrder(s) ==
    LET c == frame[s].cat
    IN  /\ pc[s] = "write" /\ pc'[s] = "exit"
           => flock[c] = {s} /\ fd[s] = OpenFd(c)
        /\ pc[s] = "exit" /\ pc'[s] = "sync"
           => s \notin flock'[c] /\ fd'[s] = NoFd
        /\ pc[s] = "sync" /\ pc'[s] = "next"
           => \A d \in Cats : s \notin flock[d]
        /\ pc[s] = "read" /\ pc'[s] = "next"
           => /\ flock[LockCat(s)] = {s}
              /\ s \notin flock'[LockCat(s)]
              /\ cache'[s][LockCat(s)] = DocOf(content[LockCat(s)])

\* C25 as claimed: a mutating call writes under the lock, gives the lock
\* up, then syncs under a lock taken anew; at the end of a call that has
\* written preset n, whatever other processes did in between, the cache of
\* the store has the document with the record n.
C25_WriteThenSync ==
    [][\A s \in Stores :
          /\ CallOrder(s)
          /\ Completes(s) /\ frame[s].cat # ""
             => /\ frame[s].cat \in DOMAIN cache'[s]
                /\ frame[s].name \in DOMAIN cache'[s][frame[s].cat]
      ]_vars

\* C25 as amended: the same order of steps; at the end of a call that has
\* written preset n the cache has the document with the record n when the
\* sync got the lock, and has no entry for the preset type when the lock
\* was still held by another process at the second attempt of the sync.
C25_WriteThenSyncIfLocked ==
    [][\A s \in Stores :
          /\ CallOrder(s)
          /\ Completes(s) /\ frame[s].cat # ""
             => IF logged[s]
                THEN frame[s].cat \notin DOMAIN cache'[s]
                ELSE /\ frame[s].cat \in DOMAIN cache'[s]
                     /\ frame[s].name \in DOMAIN cache'[s][frame[s].cat]
      ]_vars

\* s added a; t read the document after that and added b; the sync of s
\* read the document after the write of t
C25_Witness ==
    \E s, t \in Stores :
        /\ pc[s] = "next" /\ frame[s].todo = << >> /\ ~logged[s]
        /\ frame[s].cat = "c1" /\ frame[s].name = "a"
        /\ "c1" \in DOMAIN cache[s]
        /\ DOMAIN cache[s]["c1"] = {"a", "b"}
        /\ pc[t] \in {"exit", "sync"}
        /\ frame[t].name = "b"
        /\ DOMAIN frame[t].data = {"a", "b"}

\* C26: the write of an update of name n replaces the whole document.
\* Afterwards the file is the serialisation of one document and nothing
\* else; that document has the records of the document before, every one
\* other than n exactly as it was, and the record n; the files of the other
\* preset types are as they were.
C26_WholeDocument ==
    [][\A s \in Stores :
          pc[s] = "write" /\ pc'[s] = "exit" =>
              LET c == frame[s].cat
                  n == frame[s].name
                  old == DocOf(content[c])
              IN  /\ content'[c].kind = "yaml"
                  /\ content'[c] = Yaml(frame[s].data)
                  /\ DOMAIN content'[c].data = DOMAIN old \cup {n}
                  /\ \A m \in DOMAIN old \ {n} : content'[c].data[m] = old[m]
                  /\ \A d \in Cats \ {c} : content'[d] = content[d]
                  /\ exists' = exists
      ]_vars

\* the second update has been written: b added to c1, next to a
C26_Witness ==
    /\ pc["p1"] = "exit" /\ calls = 2
    /\ frame["p1"].cat = "c1" /\ frame["p1"].name = "b"
    /\ DOMAIN DocOf(content["c1"]) = {"a", "b"}

\* C27: no record is deleted or renamed.  In every step of every process
\* each document keeps all the preset names it has.
C27_NamesKept ==
    [][\A c \in Cats :
          DOMAIN DocOf(content[c]) \subseteq DOMAIN DocOf(content'[c])]_vars

\* one store has added a, the other one has deactivated it: the record is
\* still in the document
C27_Witness ==
    \E s \in Stores :
        /\ pc[s] = "exit" /\ calls = 2
        /\ frame[s].name = "a" /\ ~frame[s].active
        /\ "a" \in DOMAIN DocOf(content["c1"])
        /\ ~DocOf(content["c1"])["a"].active
        /\ \E t \in Stores \ {s} : result[t] = "ok"

\* C28: ties go to the accessor registered first.  When the smallest
\* absolute distance of an active preset from the mover is below 0.5 and
\* two or more active presets are at that distance, state() returns the one
\* of them whose wm_ accessor comes first in the list of accessors.
C28_TieFirstRegistered ==
    \A s \in Stores :
        LET act == DOMAIN positions[s]
            off(n) == WmPre(cache[s], positions[s][n], n, position)
            dist(n) == IF off(n) < 0 THEN 0 - off(n) ELSE off(n)
            ties == {n \in act : \A m \in act : dist(n) <= dist(m)}
            idx(n) == CHOOSE i \in 1..Len(methods[s]) :
                          /\ methods[s][i] = <<"device", "wm_", n>>
                          /\ \A j \in 1..(i - 1) :
                                 methods[s][j] # <<"device", "wm_", n>>
            ans == State(methods[s], cache[s], positions[s], position)
        IN  /\ pc[s] = "idle"
            /\ Cardinality(ties) >= 2
            /\ \A n \in ties : dist(n) < Closest
            => /\ ans \in ties
               /\ \A n \in ties : idx(ans) <= idx(n)

\* C29: the active flag follows the active argument of the update.  A
\* record of a storage file gets the flag false (from true, or from not being
\* there) only in the write of an update of that record called with
\* active = false; the write of every update called with active = true, with
\* a position or with a comment only, leaves the record with the flag true,
\* also when the flag was false before; and at the end of such a call whose
\* sync has read the record with the flag true (no deactivate of another
\* process came between the write and the sync) the device has mv_, umv_ and
\* wm_ of the preset.
C29_ActiveFlag ==
    [][/\ \A c \in Cats : \A n \in DOMAIN DocOf(content'[c]) :
              /\ ~DocOf(content'[c])[n].active
              /\ n \in DOMAIN DocOf(content[c]) => DocOf(content[c])[n].active
              => \E s \in Stores :
                     /\ pc[s] = "write" /\ pc'[s] = "exit"
                     /\ frame[s].cat = c /\ frame[s].name = n
                     /\ ~frame[s].active
       /\ \A s \in Stores :
              LET c == frame[s].cat
                  n == frame[s].name
              IN  /\ pc[s] = "write" /\ pc'[s] = "exit" /\ frame[s].active
                     => /\ n \in DOMAIN DocOf(content'[c])
                        /\ DocOf(content'[c])[n].active
                  /\ Completes(s) /\ c # "" /\ frame[s].active /\ ~logged[s]
                         /\ frame[s].ctx = "sync"
                         /\ c \in DOMAIN cache'[s]
                         /\ n \in DOMAIN cache'[s][c]
                         /\ cache'[s][c][n].active
                     => DeviceMethods(n) \subseteq attrs'[s]
      ]_vars

\* a comment-only update of a preset that was deactivated at the last sync
\* (the device has none of its accessors yet) has written the record: the
\* flag in the file is true again
C29_Witness ==
    /\ pc["p1"] = "exit" /\ frame["p1"].ctx = "update"
    /\ frame["p1"].cat = "c1" /\ frame["p1"].name = "a"
    /\ frame["p1"].value.t = "none" /\ frame["p1"].comment.t # "none"
    /\ frame["p1"].active
    /\ DocOf(content["c1"])["a"].active
    /\ "c1" \in DOMAIN cache["p1"]
    /\ "a" \in DOMAIN cache["p1"]["c1"]
    /\ ~cache["p1"]["c1"]["a"].active
    /\ DeviceMethods("a") \cap attrs["p1"] = {}

\* C30: sync survives lock contention.  When the non-blocking flock of a
\* sync fails because another process holds the lock of the file, sync does
\* not raise: it logs the failure and goes on with the next preset type,
\* with no cache entry for the locked one; the rest of the loop adds cache
\* entries only for the preset type it is reading, also after a failure, so
\* the locked type stays absent; and the sync ends normally with add_ and
\* add_here_ installed for every configured preset type and with mv_, umv_
\* and wm_ only for the active presets of the preset types in the cache.
C30_SyncSurvivesContention ==
    [][\A s \in Stores :
          LET inSync == /\ frame[s].ctx = "sync"
                        /\ pc[s] \in {"next", "flock", "nb", "read"}
              fromCache(ch) ==
                  UNION {DeviceMethods(n) :
                            n \in {m \in SeqSet(NameSeq) :
                                      \E c \in DOMAIN ch :
                                          /\ m \in DOMAIN ch[c]
                                          /\ ch[c][m].active}}
          IN  /\ inSync /\ pc[s] = "nb" /\ pc'[s] # "nb"
                     /\ flock[LockCat(s)] \ {s} # {}
                 => /\ pc'[s] = "next"
                    /\ logged'[s]
                    /\ result'[s] = result[s]
                    /\ frame'[s].todo = Tail(frame[s].todo)
                    /\ LockCat(s) \notin DOMAIN cache'[s]
              /\ inSync /\ frame'[s] # frame[s] /\ pc'[s] # "idle"
                 => /\ frame'[s].todo \in {frame[s].todo, Tail(frame[s].todo)}
                    /\ DOMAIN cache'[s] \ DOMAIN cache[s]
                           \subseteq {Head(frame[s].todo)}
                    /\ DOMAIN cache[s] \subseteq DOMAIN cache'[s]
              /\ inSync /\ pc[s] = "read" /\ pc'[s] = "next"
                 => cache'[s][LockCat(s)] = DocOf(content[LockCat(s)])
              /\ Completes(s)
                 => /\ result'[s] = "ok"
                    /\ cache'[s] = cache[s]
                    /\ \A c \in SeqSet(paths[s]) :
                           /\ <<"presets", "add_", c>> \in attrs'[s]
                           /\ <<"presets", "add_here_", c>> \in attrs'[s]
                    /\ {a \in attrs'[s] : a[1] = "device"}
                           = fromCache(cache'[s])
      ]_vars

\* the sync at the end of add_c2('b', ...) could not lock the file of c1,
\* which holds the active preset a: the call has returned, c1 is not in the
\* cache, c2 has been loaded after the failure, the device has the accessors
\* of b and none of a, and add_c1 and add_here_c1 are installed
C30_Witness ==
    /\ pc["p1"] = "idle" /\ result["p1"] = "ok" /\ logged["p1"]
    /\ exists["c1"] /\ "a" \in DOMAIN DocOf(content["c1"])
    /\ DocOf(content["c1"])["a"].active
    /\ "c1" \notin DOMAIN cache["p1"]
    /\ "c2" \in DOMAIN cache["p1"]
    /\ "b" \in DOMAIN cache["p1"]["c2"] /\ cache["p1"]["c2"]["b"].active
    /\ DeviceMethods("b") \subseteq attrs["p1"]
    /\ DeviceMethods("a") \cap attrs["p1"] = {}
    /\ <<"presets", "add_", "c1">> \in attrs["p1"]
    /\ <<"presets", "add_here_", "c1">> \in attrs["p1"]

\* the add accessors of every configured preset type are on the store
AddInstalled(at, p) ==
    \A c \in SeqSet(p) : /\ <<"presets", "add_", c>> \in at
                          /\ <<"presets", "add_here_", c>> \in at

\* add_here_<type>(name) begins an update whose value is what the device
\* reports at that moment; the write stores that value as the value of the
\* preset, wherever the mover has gone meanwhile
HereValue(s) ==
    LET c == frame[s].cat
        n == frame[s].name
    IN  /\ pc[s] = "idle" /\ pc'[s] # "idle" /\ frame'[s].ctx = "update"
           => frame'[s].value = Real(position)
        /\ frame[s].ctx = "update" /\ frame'[s].ctx = "update"
           => frame'[s].value = frame[s].value
        /\ pc[s] = "write" /\ pc'[s] = "exit"
           => /\ exists[c]
              /\ DocOf(content'[c])[n].value = frame[s].value.v

Reconfigured(p, ps, ch, at, files) ==
    \A s \in Stores :
        /\ ps[s] = p
        /\ DOMAIN ch[s] \subseteq SeqSet(p)
        /\ \A c \in DOMAIN ch[s] : ch[s][c] = DocOf(files[c])
        /\ at[s] = SeqSet(CreateMethods(p, ch[s]))

\* C32: setup_preset_paths re-syncs every store.  The call gives every
\* store the new preset types; when the call has ended, every store's cache
\* has entries only for the new preset types, and every store's add_,
\* add_here_ and preset accessors are those of the new preset types and of
\* that cache.
C32_Reconfigure ==
    [][/\ ~InSetup /\ InSetup'
          => \A s, t \in Stores : paths'[s] = paths'[t]
       /\ InSetup /\ ~InSetup'
          => Reconfigured(paths["p1"], paths', cache', attrs', content')
      ]_vars

\* C33: _read of a preset type without a file, or with an empty file,
\* gives the empty document.  When a call of _read for a preset type whose
\* file does not exist, or exists and is empty, is about to return, it has
\* not raised and what it returns is the empty document.
C33_ReadMissingIsEmpty ==
    \A s \in Stores :
        LET c == frame[s].cat
        IN  pc[s] = "ret" /\ (~exists[c] \/ content[c] = EmptyFile)
                => result[s] = "ok" /\ frame[s].data = EmptyDoc

====
